---------------------------- MODULE Spec2Model ----------------------------
(***************************************************************************)
(* A model of rnacanvas.forms: DragTranslater (src/src/DragTranslater.ts)  *)
(* and FormFronter (src/src/FormFronter.ts).                               *)
(*                                                                         *)
(* The DOM is a tree of nodes, the inline `translate` style of the target  *)
(* form is the parsed CSS declaration, and strings are sequences of        *)
(* one-character strings, so that formatting a vector into a style string  *)
(* and the CSS parser reading it back are two different computations.      *)
(* Lengths are whole pixels.                                               *)
(***************************************************************************)
EXTENDS Integers, Sequences, FiniteSets, TLC

(***************************************************************************)
(* Bounds of the model.                                                    *)
(***************************************************************************)
\* The largest |x| or |y| a move may leave in the `translate` style.
MaxOffset == 10
\* The size of one pointer movement along an axis.
MoveStep == 5

(***************************************************************************)
(* The document.                                                           *)
(***************************************************************************)
Null == "null"

\* DragTranslater's constructor argument (and one of the fronted forms).
targetForm == "form1"

\* The nodes of the document; "orphan" is an element with no parent node.
Nodes == {"container", "form1", "form2", "form3", "field", "input", "orphan"}

\* What an event's target can be: a node, or the window (not a Node).
EventTargets == Nodes \cup {"window"}

\* The elements a FormFronter was constructed for.
FrontedForms == {"form1", "form2", "form3", "orphan"}

\* The document at construction time.
InitialChildren ==
  [n \in Nodes |->
     CASE n = "container" -> <<"form1", "form2", "form3">>
       [] n = "form1" -> <<"field">>
       [] n = "field" -> <<"input">>
       [] OTHER -> <<>>]

\* event.target instanceof Node
IsNode(t) == t \in Nodes

InSeq(s, x) == \E i \in 1..Len(s) : s[i] = x

\* node.parentNode
ParentNode(ch, n) ==
  IF \E p \in Nodes : InSeq(ch[p], n)
    THEN CHOOSE p \in Nodes : InSeq(ch[p], n)
    ELSE Null

\* parentNode.lastChild
LastChild(ch, p) == IF Len(ch[p]) = 0 THEN Null ELSE ch[p][Len(ch[p])]

RemoveFrom(s, x) == SelectSeq(s, LAMBDA y : y # x)

\* A variant of AppendChild that leaves the node at its old position too.
AppendChildKeepsOld(ch, p, n) == [ch EXCEPT ![p] = Append(@, n)]

\* parentNode.appendChild(node): the node leaves its current position and
\* becomes the last child of parentNode.
AppendChild(ch, p, n) ==
  [q \in Nodes |->
     IF q = p THEN Append(RemoveFrom(ch[q], n), n) ELSE RemoveFrom(ch[q], n)]

\* node.contains(other): other is node or one of its descendants.
RECURSIVE Contains(_, _, _)
Contains(ch, n, other) ==
  \/ n = other
  \/ \E i \in 1..Len(ch[n]) : Contains(ch, ch[n][i], other)

(***************************************************************************)
(* Vectors.                                                                *)
(***************************************************************************)
Zero == <<0, 0>>
VAdd(a, b) == <<a[1] + b[1], a[2] + b[2]>>
VSub(a, b) == <<a[1] - b[1], a[2] - b[2]>>
VScale(k, a) == <<k * a[1], k * a[2]>>

(***************************************************************************)
(* Style strings.  A string is a sequence of characters.                   *)
(***************************************************************************)
DigitChars == <<"0", "1", "2", "3", "4", "5", "6", "7", "8", "9">>

RECURSIVE NatToString(_)
NatToString(n) ==
  IF n < 10
    THEN <<DigitChars[n + 1]>>
    ELSE NatToString(n \div 10) \o <<DigitChars[(n % 10) + 1]>>

\* `${number}` for a whole number.
NumberToString(n) == IF n < 0 THEN <<"-">> \o NatToString(-n) ELSE NatToString(n)

\* A variant of FormatTranslate that leaves the unit out: `${x} ${y}`.
FormatTranslateNoUnit(v) ==
  NumberToString(v[1]) \o <<" ">> \o NumberToString(v[2])

\* `${currentTranslation.x}px ${currentTranslation.y}px`
FormatTranslate(v) ==
  NumberToString(v[1]) \o <<"p", "x", " ">> \o NumberToString(v[2]) \o <<"p", "x">>

\* The literal '0px 0px'.
ZeroTranslate == <<"0", "p", "x", " ", "0", "p", "x">>

\* The CSS parser, as far as the `translate` property needs it.
IsDigit(c) == \E i \in 1..10 : DigitChars[i] = c
DigitValue(c) == (CHOOSE i \in 1..10 : DigitChars[i] = c) - 1

RECURSIVE DigitsToNat(_)
DigitsToNat(s) ==
  IF Len(s) = 0
    THEN 0
    ELSE 10 * DigitsToNat(SubSeq(s, 1, Len(s) - 1)) + DigitValue(s[Len(s)])

IsDigits(s) == Len(s) > 0 /\ \A i \in 1..Len(s) : IsDigit(s[i])

\* <number>: an optional sign and digits.
IsNumber(s) ==
  /\ Len(s) > 0
  /\ IF s[1] \in {"-", "+"} THEN IsDigits(Tail(s)) ELSE IsDigits(s)

NumberValue(s) ==
  CASE s[1] = "-" -> 0 - DigitsToNat(Tail(s))
    [] s[1] = "+" -> DigitsToNat(Tail(s))
    [] OTHER -> DigitsToNat(s)

\* <length>: a number with the unit px; a zero needs no unit.
IsLength(s) ==
  \/ /\ Len(s) > 2
     /\ SubSeq(s, Len(s) - 1, Len(s)) = <<"p", "x">>
     /\ IsNumber(SubSeq(s, 1, Len(s) - 2))
  \/ /\ IsNumber(s)
     /\ NumberValue(s) = 0

LengthValue(s) ==
  IF IsNumber(s) THEN NumberValue(s) ELSE NumberValue(SubSeq(s, 1, Len(s) - 2))

\* The whitespace-separated tokens of a string.
RECURSIVE Tokens(_)
Tokens(s) ==
  IF Len(s) = 0
    THEN <<>>
    ELSE IF s[1] = " "
      THEN Tokens(Tail(s))
      ELSE LET rest == Tokens(Tail(s)) IN
           IF Len(s) > 1 /\ s[2] # " " /\ Len(rest) > 0
             THEN <<(<<s[1]>> \o rest[1])>> \o Tail(rest)
             ELSE <<(<<s[1]>>)>> \o rest

\* The inline style has no `translate` declaration.
NoTranslate == <<>>

\* translate: <length> <length>?  The second length defaults to 0px.
ParseTokens(toks) ==
  IF Len(toks) \in {1, 2} /\ \A i \in 1..Len(toks) : IsLength(toks[i])
    THEN [valid |-> TRUE,
          value |-> <<LengthValue(toks[1]),
                      IF Len(toks) = 2 THEN LengthValue(toks[2]) ELSE 0>>]
    ELSE [valid |-> FALSE, value |-> NoTranslate]

ParseTranslate(s) == ParseTokens(Tokens(s))

\* style.translate = s: the empty string removes the declaration, a value
\* that does not parse leaves the declaration as it was.
Declare(style, parsed) == IF parsed.valid THEN parsed.value ELSE style

StyleTranslateSet(style, s) ==
  IF Len(s) = 0 THEN NoTranslate ELSE Declare(style, ParseTranslate(s))

\* style.translate read: the declaration serialized; a second length of
\* 0px is left out.
StyleTranslateGet(style) ==
  IF style = NoTranslate
    THEN <<>>
    ELSE IF style[2] = 0
      THEN NumberToString(style[1]) \o <<"p", "x">>
      ELSE NumberToString(style[1]) \o <<"p", "x", " ">>
             \o NumberToString(style[2]) \o <<"p", "x">>

\* The translation the rendering engine applies for a declaration.
UsedTranslate(style) == IF style = NoTranslate THEN Zero ELSE style

(***************************************************************************)
(* State.                                                                  *)
(***************************************************************************)
VARIABLES
  children,          \* the document: each node's child nodes, in order
  translate,         \* targetForm.style.translate, as the parsed declaration
  lastMouseDown,     \* DragTranslater.lastMouseDown: <<>> or <<event>>
  mouseIsDown,       \* DragTranslater.mouseIsDown
  interactionDepth,  \* DragTranslater.interactionDepth
  ambient,           \* layout around the target: where its untranslated box
                     \* is measured, and the scale its offsets are drawn at
  classList,         \* each node's classList, a set of class names
  peers,             \* the DragTranslaters of other elements, by target
  hover,             \* history: the origin of the last hover event
  lastOp,            \* history: the operation that ran last
  press,             \* history: the press-start / press-end events delivered
  drag,              \* history: the drag session since its press-start
  acc,               \* history: qualifying deltas since the last reset
  fronting           \* history: what the last press did to the document

vars == <<children, translate, lastMouseDown, mouseIsDown, interactionDepth,
          ambient, classList, peers, hover, lastOp, press, drag, acc, fronting>>

(***************************************************************************)
(* DragTranslater.                                                         *)
(***************************************************************************)
\* The layouts the target form is measured in.
AmbientGeometries ==
  {[origin |-> <<40, -25>>, scale |-> 1]}

\* Layouts in which an ancestor of the target form is moved, or drawn at
\* twice the size (transform: scale(2)).
ScaledGeometries ==
  {[origin |-> <<40, -25>>, scale |-> 1],
   [origin |-> <<-7, 12>>, scale |-> 1],
   [origin |-> <<0, 0>>, scale |-> 2],
   [origin |-> <<40, -25>>, scale |-> 2]}

\* targetForm.getBoundingClientRect(): the x and y of the rendered box.
getBoundingClientRect(style, amb) ==
  VAdd(amb.origin, VScale(amb.scale, UsedTranslate(style)))

\* The DragTranslater object together with its target's inline style.
This ==
  [lastMouseDown |-> lastMouseDown, mouseIsDown |-> mouseIsDown,
   interactionDepth |-> interactionDepth, translate |-> translate,
   targetForm |-> targetForm]

\* new DragTranslater(form), with the inline style of form.
New(form) ==
  [lastMouseDown |-> <<>>, mouseIsDown |-> FALSE,
   interactionDepth |-> "shallow", translate |-> NoTranslate,
   targetForm |-> form]

\* The other elements a DragTranslater is constructed for, where there are
\* several: a sibling of targetForm and an element inside targetForm.
PeerForms == {"form2", "field"}

\* No DragTranslater but the one of targetForm.
NoPeers == [form \in {} |-> New(form)]

\* The layout around the target of a peer: an element inside targetForm is
\* drawn where the translation of targetForm puts it.
PeerAmbient(form, ch, amb, style) ==
  IF Contains(ch, targetForm, form)
    THEN [amb EXCEPT !.origin = VAdd(@, VScale(amb.scale, UsedTranslate(style)))]
    ELSE amb

\* A variant of Measured that leaves the style at '0px 0px'.
MeasuredWithoutRestore(this, amb, translatedClientRect, cached, removed) ==
  [value |-> VSub(translatedClientRect, getBoundingClientRect(removed, amb)),
   this |-> [this EXCEPT !.translate = removed]]

\* get currentTranslation(): the vector returned, and the object afterwards
\* (the style is zeroed for the second measurement and then restored).
Measured(this, amb, translatedClientRect, cached, removed) ==
  [value |-> VSub(translatedClientRect, getBoundingClientRect(removed, amb)),
   this |-> [this EXCEPT !.translate = StyleTranslateSet(removed, cached)]]

currentTranslationGet(this, amb) ==
  Measured(this, amb,
           getBoundingClientRect(this.translate, amb),
           StyleTranslateGet(this.translate),
           StyleTranslateSet(this.translate, ZeroTranslate))

\* set currentTranslation(v)
currentTranslationSet(this, v) ==
  [this EXCEPT !.translate = StyleTranslateSet(@, FormatTranslate(v))]

\* A variant of untranslate that writes '0px, 0px', which is no value of the
\* property.
untranslateWithComma(this) ==
  [this EXCEPT !.translate =
     StyleTranslateSet(@, <<"0", "p", "x", ",", " ", "0", "p", "x">>)]

\* A variant of untranslate that also ends the drag.
untranslateEndsDrag(this) ==
  [this EXCEPT !.translate = StyleTranslateSet(@, ZeroTranslate),
               !.mouseIsDown = FALSE]

\* untranslate()
untranslate(this) ==
  [this EXCEPT !.translate = StyleTranslateSet(@, ZeroTranslate)]

\* A variant of handleMouseDown that enters the pressed state only for a
\* press that began on a node.
handleMouseDownOnNodesOnly(this, event) ==
  [this EXCEPT !.lastMouseDown = <<event>>, !.mouseIsDown = IsNode(event.target)]

\* A variant of handleMouseDown that sets the flag and records nothing.
handleMouseDownForgetsEvent(this, event) == [this EXCEPT !.mouseIsDown = TRUE]

\* A variant of handleMouseDown that keeps the record of a press that is
\* still held.
handleMouseDownKeepsFirst(this, event) ==
  IF this.mouseIsDown
    THEN this
    ELSE [this EXCEPT !.lastMouseDown = <<event>>, !.mouseIsDown = TRUE]

handleMouseDown(this, event) ==
  [this EXCEPT !.lastMouseDown = <<event>>, !.mouseIsDown = TRUE]

\* A variant of Translated that adds movementX to both coordinates.
TranslatedByMovementX(currentTranslation, event) ==
  currentTranslationSet(currentTranslation.this,
                        VAdd(currentTranslation.value,
                             <<event.movement[1], event.movement[1]>>))

\* The last statement of handleMouseMove: currentTranslation, as read, plus
\* the event's movement is written back.
Translated(currentTranslation, event) ==
  currentTranslationSet(currentTranslation.this,
                        VAdd(currentTranslation.value, event.movement))

\* A variant of handleMouseMove that ignores interactionDepth: only a press
\* on the target itself counts.
handleMouseMoveShallowOnly(this, ch, amb, event) ==
  IF ~this.mouseIsDown THEN this
  ELSE IF Len(this.lastMouseDown) = 0 THEN this
  ELSE IF ~IsNode(this.lastMouseDown[1].target) THEN this
  ELSE IF this.lastMouseDown[1].target # this.targetForm THEN this
  ELSE currentTranslationSet(currentTranslationGet(this, amb).this,
                             VAdd(currentTranslationGet(this, amb).value,
                                  event.movement))

\* A variant of handleMouseMove that does not test where the press began.
handleMouseMoveAnyOrigin(this, ch, amb, event) ==
  IF ~this.mouseIsDown THEN this
  ELSE IF Len(this.lastMouseDown) = 0 THEN this
  ELSE currentTranslationSet(currentTranslationGet(this, amb).this,
                             VAdd(currentTranslationGet(this, amb).value,
                                  event.movement))

\* A variant of handleMouseMove in which every translater tests the press
\* against the same element.
handleMouseMoveSharedTarget(this, ch, amb, event) ==
  IF ~this.mouseIsDown THEN this
  ELSE IF Len(this.lastMouseDown) = 0 THEN this
  ELSE IF ~IsNode(this.lastMouseDown[1].target) THEN this
  ELSE IF /\ this.interactionDepth = "shallow"
          /\ this.lastMouseDown[1].target # targetForm THEN this
  ELSE IF /\ this.interactionDepth # "shallow"
          /\ ~Contains(ch, targetForm, this.lastMouseDown[1].target) THEN this
  ELSE Translated(currentTranslationGet(this, amb), event)

handleMouseMove(this, ch, amb, event) ==
  IF ~this.mouseIsDown THEN this
  ELSE IF Len(this.lastMouseDown) = 0 THEN this
  ELSE IF ~IsNode(this.lastMouseDown[1].target) THEN this
  ELSE IF /\ this.interactionDepth = "shallow"
          /\ this.lastMouseDown[1].target # this.targetForm THEN this
  ELSE IF /\ this.interactionDepth # "shallow"
          /\ ~Contains(ch, this.targetForm, this.lastMouseDown[1].target) THEN this
  ELSE Translated(currentTranslationGet(this, amb), event)

\* A variant of handleMouseUp that leaves mouseIsDown set.
handleMouseUpKeepsFlag(this, event) == this

handleMouseUp(this, event) == [this EXCEPT !.mouseIsDown = FALSE]

\* styles['grab-cursor']
GrabCursor == "grab-cursor"

\* A variant of the 'mouseover' listener without the test of event.target.
handleMouseOverAnyTarget(classes, form, event) == classes \cup {GrabCursor}

\* The 'mouseover' listener the constructor adds to targetForm.
handleMouseOver(classes, form, event) ==
  IF event.target = form THEN classes \cup {GrabCursor} ELSE classes

\* The 'mouseout' listener the constructor adds to targetForm.
handleMouseOut(classes, form, event) ==
  IF event.target = form THEN classes \ {GrabCursor} ELSE classes

\* The object's fields and the target's style after an operation.
Becomes(this) ==
  /\ lastMouseDown' = this.lastMouseDown
  /\ mouseIsDown' = this.mouseIsDown
  /\ interactionDepth' = this.interactionDepth
  /\ translate' = this.translate

\* The translation a read returns when the target's style is `style`.
TranslationOf(style) ==
  currentTranslationGet([This EXCEPT !.translate = style], ambient).value

\* The translation a read returns in the current state.
Translation == TranslationOf(translate)

(***************************************************************************)
(* FormFronter.                                                            *)
(***************************************************************************)
\* A variant of bringToFront that compares with the first child.
bringToFrontFirstChild(ch, form) ==
  LET parentNode == ParentNode(ch, form) IN
  IF parentNode = Null
    THEN [children |-> ch, appended |-> 0, threw |-> FALSE]
    ELSE IF Head(ch[parentNode]) = form
      THEN [children |-> ch, appended |-> 0, threw |-> FALSE]
      ELSE [children |-> AppendChild(ch, parentNode, form),
            appended |-> 1, threw |-> FALSE]

\* A variant of bringToFront without the test for the last child.
bringToFrontAlwaysAppends(ch, form) ==
  LET parentNode == ParentNode(ch, form) IN
  IF parentNode = Null
    THEN [children |-> ch, appended |-> 0, threw |-> FALSE]
    ELSE [children |-> AppendChild(ch, parentNode, form),
          appended |-> 1, threw |-> FALSE]

\* A variant of bringToFront without the test for a parent node: reading
\* lastChild of null throws.
bringToFrontNoParentCheck(ch, form) ==
  LET parentNode == ParentNode(ch, form) IN
  IF parentNode = Null
    THEN [children |-> ch, appended |-> 0, threw |-> TRUE]
    ELSE IF LastChild(ch, parentNode) = form
      THEN [children |-> ch, appended |-> 0, threw |-> FALSE]
      ELSE [children |-> AppendChild(ch, parentNode, form),
            appended |-> 1, threw |-> FALSE]

\* bringToFront(): the document afterwards, the number of appendChild
\* calls made, and whether an error was thrown.
bringToFront(ch, form) ==
  LET parentNode == ParentNode(ch, form) IN
  IF parentNode = Null
    THEN [children |-> ch, appended |-> 0, threw |-> FALSE]
    ELSE LET lastChild == LastChild(ch, parentNode) IN
         IF lastChild = form
           THEN [children |-> ch, appended |-> 0, threw |-> FALSE]
           ELSE [children |-> AppendChild(ch, parentNode, form),
                 appended |-> 1, threw |-> FALSE]

\* The path an event takes from its target up to the root of its tree.
RECURSIVE EventPath(_, _)
EventPath(ch, t) ==
  IF ~IsNode(t) THEN <<>>
  ELSE IF ParentNode(ch, t) = Null THEN <<t>>
  ELSE <<t>> \o EventPath(ch, ParentNode(ch, t))

\* The 'mousedown' listeners of the fronters on the path, run in order.
RECURSIVE RunFronters(_, _)
RunFronters(doc, path) ==
  IF Len(path) = 0 THEN doc
  ELSE IF Head(path) \notin FrontedForms THEN RunFronters(doc, Tail(path))
  ELSE LET r == bringToFront(doc.children, Head(path)) IN
       RunFronters([children |-> r.children,
                    appended |-> doc.appended + r.appended,
                    threw |-> doc.threw \/ r.threw], Tail(path))

(***************************************************************************)
(* History variables: what the claims speak about and the program does     *)
(* not store.  They are written from the events delivered, never from the  *)
(* program's own fields.                                                   *)
(***************************************************************************)
NoDrag == [phase |-> "none", start |-> Zero, sum |-> Zero]

\* n is root or one of its descendants, by walking up from n.
RECURSIVE IsWithin(_, _, _)
IsWithin(ch, n, root) ==
  \/ n = root
  \/ /\ ParentNode(ch, n) # Null
     /\ IsWithin(ch, ParentNode(ch, n), root)

\* The press-start delivered last is still held and began on a node that
\* counts for the target under the given depth.
PressQualifiesUnder(depth) ==
  /\ press.state = "down"
  /\ IsNode(press.origin)
  /\ IF depth = "shallow"
       THEN press.origin = targetForm
       ELSE IsWithin(children, press.origin, targetForm)

PressQualifies == PressQualifiesUnder(interactionDepth)

\* The same for the translater of another element.
PressQualifiesFor(form, depth) ==
  /\ press.state = "down"
  /\ IsNode(press.origin)
  /\ IF depth = "shallow"
       THEN press.origin = form
       ELSE IsWithin(children, press.origin, form)

\* The press-start delivered last is still held and began on a descendant of
\* the target, not on the target itself.
BeganOnDescendant ==
  /\ press.state = "down"
  /\ IsNode(press.origin)
  /\ press.origin # targetForm
  /\ IsWithin(children, press.origin, targetForm)

InBox(v) ==
  /\ v[1] \in (0 - MaxOffset)..MaxOffset
  /\ v[2] \in (0 - MaxOffset)..MaxOffset

\* event.movementX, event.movementY
Movements ==
  {Zero, <<MoveStep, 0>>, <<0 - MoveStep, MoveStep>>, <<0, 0 - MoveStep>>}

\* The vectors an application writes to currentTranslation.
WrittenVectors == {Zero, <<-5, 10>>, <<10, 0>>, <<3, -7>>}

\* The press-start origins of the drag scenarios.
DragOrigins == {"form1", "input", "container", "window"}

(***************************************************************************)
(* The initial state: a document, a DragTranslater constructed for         *)
(* targetForm, a FormFronter constructed for each fronted form.            *)
(***************************************************************************)
Constructed ==
  /\ children = InitialChildren
  /\ translate = NoTranslate
  /\ lastMouseDown = <<>>
  /\ mouseIsDown = FALSE
  /\ interactionDepth = "shallow"
  /\ classList = [n \in Nodes |-> {}]
  /\ hover = Null
  /\ lastOp = [name |-> "new", vec |-> Zero]
  /\ press = [state |-> "never", origin |-> Null, depth |-> Null, gated |-> Null,
              depth0 |-> Null, replaced |-> FALSE]
  /\ drag = NoDrag
  /\ acc = [wrote |-> FALSE, tracked |-> TRUE, sum |-> Zero, resetHeld |-> FALSE]
  /\ fronting = [origin |-> Null, before |-> InitialChildren, appended |-> 0,
                 threw |-> FALSE, again |-> FALSE]

Init ==
  /\ ambient \in AmbientGeometries
  /\ peers = NoPeers
  /\ Constructed

(***************************************************************************)
(* Operations.                                                             *)
(***************************************************************************)
\* What a press-start with origin o writes to the history.
PressHistory(o) ==
  /\ lastOp' = [name |-> "mousedown", vec |-> Zero]
  /\ press' = [state |-> "down", origin |-> o, depth |-> interactionDepth,
               gated |-> IF press.gated = o THEN o ELSE Null,
               depth0 |-> interactionDepth,
               replaced |-> press.state = "down" /\ press.origin # o]
  /\ drag' = IF o = targetForm
               THEN [phase |-> "held", start |-> Translation, sum |-> Zero]
               ELSE NoDrag
  /\ acc' = [acc EXCEPT !.resetHeld = FALSE]

\* A 'mousedown' event reaches the window listener of the DragTranslater.
MouseDown(o) ==
  /\ Becomes(handleMouseDown(This, [type |-> "mousedown", target |-> o]))
  /\ peers' = [form \in DOMAIN peers |->
                 handleMouseDown(peers[form], [type |-> "mousedown", target |-> o])]
  /\ PressHistory(o)
  /\ UNCHANGED <<children, ambient, classList, hover, fronting>>

\* A 'mousemove' event reaches the window listener.
MouseMove(d) ==
  \E after \in {handleMouseMove(This, children, ambient,
                                 [type |-> "mousemove", movement |-> d])} :
  \E others \in {[form \in DOMAIN peers |->
                    handleMouseMove(peers[form], children,
                                    PeerAmbient(form, children, ambient,
                                                after.translate),
                                    [type |-> "mousemove", movement |-> d])]} :
  /\ InBox(UsedTranslate(after.translate))
  /\ \A form \in DOMAIN peers : InBox(UsedTranslate(others[form].translate))
  /\ Becomes(after)
  /\ peers' = others
  /\ lastOp' = [name |-> "mousemove", vec |-> d]
  /\ drag' = IF drag.phase = "held"
               THEN [drag EXCEPT !.sum = VAdd(@, d)]
               ELSE NoDrag
  /\ acc' = IF acc.tracked /\ PressQualifies
              THEN [acc EXCEPT !.sum = VAdd(@, d)]
              ELSE acc
  /\ press' = IF d # Zero /\ press.depth = "shallow" /\ BeganOnDescendant
                THEN [press EXCEPT !.gated = press.origin,
                                   !.replaced = @ /\ lastOp.name = "mousedown"]
                ELSE [press EXCEPT !.replaced = @ /\ lastOp.name = "mousedown"]
  /\ UNCHANGED <<children, ambient, classList, hover, fronting>>

\* A 'mouseup' event reaches the window listener.
MouseUp ==
  /\ Becomes(handleMouseUp(This, [type |-> "mouseup"]))
  /\ peers' = [form \in DOMAIN peers |->
                 handleMouseUp(peers[form], [type |-> "mouseup"])]
  /\ lastOp' = [name |-> "mouseup", vec |-> Zero]
  /\ press' = [press EXCEPT !.state = "up", !.depth = Null, !.depth0 = Null,
                            !.replaced = FALSE]
  /\ drag' = IF drag.phase = "held" THEN [drag EXCEPT !.phase = "done"] ELSE NoDrag
  /\ acc' = [acc EXCEPT !.resetHeld = FALSE]
  /\ UNCHANGED <<children, ambient, classList, hover, fronting>>

\* The application reads currentTranslation.
ReadTranslation ==
  \E read \in {currentTranslationGet(This, ambient)} :
  /\ Becomes(read.this)
  /\ lastOp' = [name |-> "get", vec |-> read.value]
  /\ drag' = NoDrag
  /\ press' = [press EXCEPT !.gated = Null, !.replaced = FALSE]
  /\ UNCHANGED <<children, ambient, classList, peers, hover, acc, fronting>>

\* The application writes currentTranslation.
WriteTranslation(v) ==
  /\ Becomes(currentTranslationSet(This, v))
  /\ lastOp' = [name |-> "set", vec |-> v]
  /\ drag' = NoDrag
  /\ acc' = [wrote |-> TRUE, tracked |-> FALSE, sum |-> Zero, resetHeld |-> FALSE]
  /\ press' = [press EXCEPT !.gated = Null, !.replaced = FALSE]
  /\ UNCHANGED <<children, ambient, classList, peers, hover, fronting>>

\* The application calls untranslate(); the history keeps what was discarded.
Untranslate ==
  /\ Becomes(untranslate(This))
  /\ lastOp' = [name |-> "untranslate", vec |-> Translation]
  /\ drag' = NoDrag
  /\ acc' = [acc EXCEPT !.tracked = TRUE, !.sum = Zero, !.resetHeld = PressQualifies]
  /\ press' = [press EXCEPT !.gated = Null, !.replaced = FALSE]
  /\ UNCHANGED <<children, ambient, classList, peers, hover, fronting>>

\* The application assigns interactionDepth.
SetInteractionDepth(depth) ==
  /\ Becomes([This EXCEPT !.interactionDepth = depth])
  /\ lastOp' = [name |-> "depth", vec |-> Zero]
  /\ press' = IF press.state = "down"
                THEN [press EXCEPT !.depth = "mixed", !.replaced = FALSE]
                ELSE press
  /\ drag' = NoDrag
  /\ acc' = [acc EXCEPT !.resetHeld = FALSE]
  /\ UNCHANGED <<children, ambient, classList, peers, hover, fronting>>

\* The application assigns interactionDepth of the translater of a peer.
SetPeerDepth(form, depth) ==
  /\ form \in DOMAIN peers
  /\ peers' = [peers EXCEPT ![form].interactionDepth = depth]
  /\ lastOp' = [name |-> "peerdepth", vec |-> Zero]
  /\ UNCHANGED <<children, translate, lastMouseDown, mouseIsDown,
                 interactionDepth, ambient, classList, hover, press, drag, acc,
                 fronting>>

\* A listener added to form hears the events that bubble through form: those
\* whose target is form or one of its descendants.
TargetHears(ch, form, o) == IsNode(o) /\ IsWithin(ch, o, form)

\* A 'mouseover' event with target o is dispatched.
MouseOver(o) ==
  /\ classList' =
       [n \in Nodes |->
          IF n \in {targetForm} \cup DOMAIN peers /\ TargetHears(children, n, o)
            THEN handleMouseOver(classList[n], n, [type |-> "mouseover", target |-> o])
            ELSE classList[n]]
  /\ hover' = o
  /\ lastOp' = [name |-> "mouseover", vec |-> Zero]
  /\ UNCHANGED <<children, translate, lastMouseDown, mouseIsDown,
                 interactionDepth, ambient, peers, press, drag, acc, fronting>>

\* A 'mouseout' event with target o is dispatched.
MouseOut(o) ==
  /\ classList' =
       [n \in Nodes |->
          IF n \in {targetForm} \cup DOMAIN peers /\ TargetHears(children, n, o)
            THEN handleMouseOut(classList[n], n, [type |-> "mouseout", target |-> o])
            ELSE classList[n]]
  /\ hover' = o
  /\ lastOp' = [name |-> "mouseout", vec |-> Zero]
  /\ UNCHANGED <<children, translate, lastMouseDown, mouseIsDown,
                 interactionDepth, ambient, peers, press, drag, acc, fronting>>

\* A variant of WindowHears in which a fronter's listener stops the event:
\* the window hears it only when no fronted form is on its path.
WindowHearsUnlessFronted(ch, o) ==
  \/ o = "window"
  \/ /\ IsNode(o)
     /\ IsWithin(ch, o, "container")
     /\ \A form \in FrontedForms : ~IsWithin(ch, o, form)

\* The window's listeners hear an event whose path reaches the window: its
\* target is the window or a node of the document, whose root is "container".
WindowHears(ch, o) == o = "window" \/ (IsNode(o) /\ IsWithin(ch, o, "container"))

\* A 'mousedown' event with target o is dispatched where the fronters listen
\* too: their listeners run along the path from o upwards, then the window
\* listener of the DragTranslater, when the path reaches the window.
Press(o) ==
  \E fronted \in {RunFronters([children |-> children, appended |-> 0,
                                threw |-> FALSE], EventPath(children, o))} :
  /\ children' = fronted.children
  /\ fronting' = [origin |-> o, before |-> children,
                  appended |-> fronted.appended, threw |-> fronted.threw,
                  again |-> fronting.origin = o]
  /\ IF WindowHears(children, o)
       THEN /\ Becomes(handleMouseDown(This, [type |-> "mousedown", target |-> o]))
            /\ peers' = [form \in DOMAIN peers |->
                           handleMouseDown(peers[form],
                                           [type |-> "mousedown", target |-> o])]
            /\ PressHistory(o)
       ELSE /\ lastOp' = [name |-> "mousedown", vec |-> Zero]
            /\ UNCHANGED <<translate, lastMouseDown, mouseIsDown, interactionDepth,
                           peers, press, drag, acc>>
  /\ UNCHANGED <<ambient, classList, hover>>

Next ==
  \/ \E o \in DragOrigins : MouseDown(o)
  \/ \E d \in Movements : MouseMove(d)
  \/ MouseUp
  \/ ReadTranslation
  \/ \E v \in WrittenVectors : WriteTranslation(v)
  \/ Untranslate
  \/ \E depth \in {"shallow", "deep"} : SetInteractionDepth(depth)

\* The DragTranslater alone, in a document nobody reorders.
Spec == Init /\ [][Next]_vars

\* The elements the pointer enters and leaves.
HoverOrigins == {"form1", "input", "form2"}

\* The DragTranslater with the pointer entering and leaving elements between
\* its other operations.
NextHover ==
  \/ \E o \in {"form1", "input", "window"} : MouseDown(o)
  \/ MouseMove(<<MoveStep, 0>>)
  \/ MouseUp
  \/ ReadTranslation
  \/ WriteTranslation(<<-5, 10>>)
  \/ Untranslate
  \/ \E depth \in {"shallow", "deep"} : SetInteractionDepth(depth)
  \/ \E o \in HoverOrigins : MouseOver(o)
  \/ \E o \in HoverOrigins : MouseOut(o)

SpecHover == Init /\ [][NextHover]_vars

\* A FormFronter and the DragTranslater attached to the same element, among
\* other fronted forms.
NextCompose ==
  \/ \E o \in {"form1", "form2", "input", "orphan"} : Press(o)
  \/ MouseMove(<<MoveStep, 0>>)
  \/ MouseUp
  \/ ReadTranslation
  \/ WriteTranslation(<<-5, 10>>)
  \/ Untranslate
  \/ SetInteractionDepth("deep")

SpecCompose == Init /\ [][NextCompose]_vars

\* The DragTranslater of a target form whose ancestors are moved or scaled.
InitAmbient ==
  /\ ambient \in ScaledGeometries
  /\ peers = NoPeers
  /\ Constructed

NextAmbient ==
  \/ \E o \in {"form1", "container"} : MouseDown(o)
  \/ \E d \in Movements : MouseMove(d)
  \/ MouseUp
  \/ ReadTranslation
  \/ \E v \in {<<10, 0>>, <<3, -7>>} : WriteTranslation(v)
  \/ Untranslate

SpecAmbient == InitAmbient /\ [][NextAmbient]_vars

\* Three DragTranslaters: of targetForm, of a sibling, and of an element
\* inside targetForm.  Each has its own listeners at the window.
InitMulti ==
  /\ ambient \in AmbientGeometries
  /\ peers = [form \in PeerForms |-> New(form)]
  /\ Constructed

NextMulti ==
  \/ \E o \in {"form1", "form2", "input"} : MouseDown(o)
  \/ MouseMove(<<MoveStep, 0>>)
  \/ MouseUp
  \/ Untranslate
  \/ \E depth \in {"shallow", "deep"} : SetInteractionDepth(depth)
  \/ \E form \in PeerForms : \E depth \in {"shallow", "deep"} :
       SetPeerDepth(form, depth)

SpecMulti == InitMulti /\ [][NextMulti]_vars

NextFront ==
  \/ \E o \in EventTargets : Press(o)
  \/ MouseUp

\* The fronters and the DragTranslater's press listeners on one document.
SpecFront == Init /\ [][NextFront]_vars

(***************************************************************************)
(* Claims.                                                                 *)
(***************************************************************************)

\* C1: a press-start on the target, N >= 0 moves and a press-end, with
\* nothing else in between, leave the translation equal to the translation
\* read at the press-start plus the sum of the moves' deltas.
DragAccumulates ==
  drag.phase = "done" => Translation = VAdd(drag.start, drag.sum)

\* A drag of three moves that began at the written translation (3, -7) has
\* ended.
DragAccumulatesWitness ==
  /\ drag.phase = "done"
  /\ drag.start = <<3, -7>>
  /\ drag.sum = <<-5, 10>>
  /\ Translation = <<-2, 3>>

\* C2: a move delivered while no press is held (none was ever started, or
\* the last one has ended) leaves the translate style as it was, under
\* either depth.
OutOfPressMoveKeepsStyle ==
  [][(lastOp'.name = "mousemove" /\ press.state # "down")
       => translate' = translate]_vars

\* A non-zero move arrived after the end of a press on the target, in deep
\* mode, with a non-zero translation in place.
OutOfPressMoveWitness ==
  /\ lastOp.name = "mousemove"
  /\ lastOp.vec # Zero
  /\ press.state = "up"
  /\ press.origin = targetForm
  /\ interactionDepth = "deep"
  /\ Translation # Zero

Handled(E) ==
  /\ lastOp.name = "mousedown"
  /\ IsNode(fronting.origin)
  /\ IsWithin(fronting.before, fronting.origin, E)

\* C4: after a press handled for a fronted form that has a parent, the form
\* is the last child of that parent.
FrontedIsLast ==
  \A E \in FrontedForms :
    (Handled(E) /\ ParentNode(children, E) # Null)
      => LastChild(children, ParentNode(children, E)) = E

\* A press on a descendant of form1 moved form1 from first to last of three.
FrontedIsLastWitness ==
  /\ Handled("form1")
  /\ fronting.origin = "input"
  /\ Head(fronting.before["container"]) = "form1"
  /\ Len(children["container"]) = 3
  /\ children["container"][3] = "form1"

\* C5: a press handled for a fronted form that is already the last child of
\* its parent, or that was pressed by the press before, calls appendChild
\* not at all and leaves every node's children as they were.
FrontmostPressIsNoOp ==
  \A E \in FrontedForms :
    (/\ Handled(E)
     /\ ParentNode(fronting.before, E) # Null
     /\ \/ LastChild(fronting.before, ParentNode(fronting.before, E)) = E
        \/ fronting.again)
      => (children = fronting.before /\ fronting.appended = 0)

\* form2 was pressed twice in a row among three siblings.
FrontmostPressWitness ==
  /\ Handled("form2")
  /\ fronting.origin = "form2"
  /\ fronting.again
  /\ Len(children["container"]) = 3
  /\ children # InitialChildren

\* C6: a press handled for a fronted form with no parent node throws
\* nothing, calls appendChild not at all, leaves every node's children as
\* they were and the form without a parent.
OrphanPressIsNoOp ==
  \A E \in FrontedForms :
    (Handled(E) /\ ParentNode(fronting.before, E) = Null)
      => /\ ~fronting.threw
         /\ fronting.appended = 0
         /\ children = fronting.before
         /\ ParentNode(children, E) = Null

\* The parentless form was pressed after the document had been reordered.
OrphanPressWitness ==
  /\ Handled("orphan")
  /\ ParentNode(fronting.before, "orphan") = Null
  /\ children # InitialChildren

\* C7: right after untranslate(), a read of the translation returns (0, 0).
ResetReadsZero ==
  lastOp.name = "untranslate" => Translation = Zero

\* untranslate() discarded a non-zero translation while a press was held.
ResetReadsZeroWitness ==
  /\ lastOp.name = "untranslate"
  /\ lastOp.vec = <<-2, 3>>
  /\ mouseIsDown
  /\ press.state = "down"

\* C8: untranslate() changes neither mouseIsDown nor lastMouseDown nor
\* interactionDepth, and after a reset during a held qualifying press the
\* press is still held and the translation is the sum of its later moves.
ResetKeepsSession ==
  /\ [][lastOp'.name = "untranslate"
          => UNCHANGED <<mouseIsDown, lastMouseDown, interactionDepth>>]_vars
  /\ [](acc.resetHeld => (mouseIsDown /\ Translation = acc.sum))

\* After a written translation was reset during a held press, two moves of
\* that press have accumulated from zero.
ResetKeepsSessionWitness ==
  /\ acc.resetHeld
  /\ acc.wrote
  /\ lastOp.name = "mousemove"
  /\ acc.sum = <<-10, 10>>
  /\ Translation = <<-10, 10>>

\* C9: right after a write of V a read returns V, and right after a read a
\* second read returns what the first returned.
RoundTrip ==
  /\ lastOp.name = "set" => Translation = lastOp.vec
  /\ lastOp.name = "get" => Translation = lastOp.vec

\* (3, -7) was written over another translation while a press was held.
RoundTripWitness ==
  /\ lastOp.name = "set"
  /\ lastOp.vec = <<3, -7>>
  /\ translate = <<3, -7>>
  /\ mouseIsDown

\* C10: as long as currentTranslation was never written directly, the
\* translation is the sum of the deltas of the moves that qualified since the
\* last untranslate() (or since construction).
RunningSum ==
  ~acc.wrote => Translation = acc.sum

\* After qualifying moves, a non-zero move arrived with no press held and was
\* not counted.
RunningSumWitness ==
  /\ ~acc.wrote
  /\ acc.sum = <<5, -5>>
  /\ lastOp.name = "mousemove"
  /\ lastOp.vec = <<-5, 5>>
  /\ press.state = "up"

\* C11, as claimed: whether a move of a held press accumulates is decided by
\* the depth that was in effect when the press began, whatever the depth
\* has been set to since.
DepthChangeSparesHeldPress ==
  [][(lastOp'.name = "mousemove" /\ press.state = "down")
       => IF PressQualifiesUnder(press.depth0)
            THEN TranslationOf(translate') = VAdd(Translation, lastOp'.vec)
            ELSE translate' = translate]_vars

\* C11, amended: after the depth was assigned during a held press, a move of
\* that press accumulates exactly when the press qualifies under the depth
\* in effect at the move.
DepthChangeAppliesAtNextMove ==
  [][(lastOp'.name = "mousemove" /\ press.state = "down" /\ press.depth = "mixed")
       => IF PressQualifiesUnder(interactionDepth)
            THEN TranslationOf(translate') = VAdd(Translation, lastOp'.vec)
            ELSE translate' = translate]_vars

\* A press began on a descendant in shallow mode, the depth was set to deep
\* while it was held, and its next moves accumulated.
DepthChangeWitness ==
  /\ lastOp.name = "mousemove"
  /\ lastOp.vec # Zero
  /\ press.state = "down"
  /\ press.origin = "input"
  /\ press.depth0 = "shallow"
  /\ press.depth = "mixed"
  /\ interactionDepth = "deep"
  /\ ~acc.wrote
  /\ Translation = <<-5, 10>>

\* C12: the translater is pressed exactly when a press-start has been
\* delivered and no press-end has been delivered since; moves, reads, writes,
\* resets, depth changes and hover events come in between without effect.
PressedStateMachine == mouseIsDown <=> press.state = "down"

\* A press is still held after two moves of it accumulated and the pointer
\* left an element.
PressedStateMachineWitness ==
  /\ mouseIsDown
  /\ press.state = "down"
  /\ press.origin = targetForm
  /\ acc.tracked
  /\ acc.sum = <<MoveStep + MoveStep, 0>>
  /\ lastOp.name = "mouseout"

\* C13: a press changes the translater's state only as its own press-start
\* handler does (the translation and the depth stay, and where the window is
\* not reached the flag and the record stay too); nothing but a press
\* changes the child order of any node; and a press on the element that has
\* both a fronter and the translater makes it the last child and starts a
\* press that qualifies, so that the next move accumulates.
CompositionIndependence ==
  [][/\ (lastOp'.name = "mousedown"
           => /\ translate' = translate
              /\ interactionDepth' = interactionDepth
              /\ (fronting'.origin = "orphan"
                    => /\ mouseIsDown' = mouseIsDown
                       /\ lastMouseDown' = lastMouseDown)
              /\ (fronting'.origin = targetForm
                    => /\ LastChild(children', "container") = targetForm
                       /\ mouseIsDown'
                       /\ Len(lastMouseDown') = 1
                       /\ lastMouseDown'[1].target = targetForm
                       /\ press'.state = "down"
                       /\ press'.origin = targetForm))
     /\ (lastOp'.name # "mousedown" => children' = children)
     /\ (lastOp'.name = "mousemove" /\ press.origin = targetForm /\ mouseIsDown
           => TranslationOf(translate') = VAdd(Translation, lastOp'.vec))]_vars

\* The element was pressed while it was not the last child: it was moved to
\* the end, and moves of the same press have accumulated.
CompositionWitness ==
  /\ fronting.origin = targetForm
  /\ fronting.appended = 1
  /\ LastChild(children, "container") = targetForm
  /\ mouseIsDown
  /\ lastOp.name = "mousemove"
  /\ acc.tracked
  /\ acc.sum = <<MoveStep + MoveStep, 0>>
  /\ Translation = acc.sum

FrontingFrame ==
  fronting.appended = 1
    => \E E \in FrontedForms :
         LET P == ParentNode(fronting.before, E) IN
         /\ IsWithin(fronting.before, fronting.origin, E)
         /\ P # Null
         /\ LastChild(fronting.before, P) # E
         /\ ParentNode(children, E) = P
         /\ \A n \in Nodes : InSeq(children[P], n) <=> InSeq(fronting.before[P], n)
         /\ Len(children[P]) = Len(fronting.before[P])
         /\ RemoveFrom(children[P], E) = RemoveFrom(fronting.before[P], E)
         /\ \A q \in Nodes \ {P} : children[q] = fronting.before[q]

\* A press on the middle one of three siblings moved it behind the last.
FrontingFrameWitness ==
  /\ fronting.appended = 1
  /\ fronting.origin = "form2"
  /\ fronting.before["container"] = <<"form1", "form2", "form3">>
  /\ children["container"] = <<"form1", "form3", "form2">>
  /\ children["form1"] = <<"field">>

\* C16: a read of the current translation leaves the target's translate
\* style as it was, an absent declaration staying absent, and leaves the
\* pressed flag, the recorded press and the depth as they were.
ReadHasNoNetEffect ==
  [][lastOp'.name = "get"
       => /\ translate' = translate
          /\ mouseIsDown' = mouseIsDown
          /\ lastMouseDown' = lastMouseDown
          /\ interactionDepth' = interactionDepth]_vars

\* The translation was read during a held press while the style had no
\* translate declaration, and it still has none.
ReadHasNoNetEffectWitness ==
  /\ lastOp.name = "get"
  /\ lastOp.vec = Zero
  /\ translate = NoTranslate
  /\ mouseIsDown
  /\ interactionDepth = "deep"

\* C17, as claimed: whatever the ancestor offset and the ancestor scale, a
\* read that follows a write of V returns V, and a move of a qualifying
\* press changes the written translate style by exactly its delta.
AmbientRobustness ==
  [][/\ (lastOp.name = "set" /\ lastOp'.name = "get"
           => lastOp'.vec = lastOp.vec)
     /\ (lastOp'.name = "mousemove" /\ PressQualifies
           => UsedTranslate(translate')
                = VAdd(UsedTranslate(translate), lastOp'.vec))]_vars

\* C18: with translaters on several elements, a move changes the translate
\* style of an element only when the press qualifies for that element's own
\* translater, under that translater's depth, and then by the move's delta;
\* while every translater is in shallow mode at most one element's style
\* changes in a move; and the operations of one translater leave the styles
\* and fields of the others as they are.
NoContention ==
  [][/\ (lastOp'.name = "mousemove"
           => /\ (translate' # translate => PressQualifies)
              /\ \A form \in DOMAIN peers :
                   IF PressQualifiesFor(form, peers[form].interactionDepth)
                     THEN UsedTranslate(peers'[form].translate)
                            = VAdd(UsedTranslate(peers[form].translate),
                                   lastOp'.vec)
                     ELSE peers'[form].translate = peers[form].translate
              /\ (/\ interactionDepth = "shallow"
                  /\ \A form \in DOMAIN peers :
                       peers[form].interactionDepth = "shallow")
                   => Cardinality(
                        {form \in DOMAIN peers :
                           peers'[form].translate # peers[form].translate}
                        \cup (IF translate' # translate
                                THEN {targetForm} ELSE {})) <= 1)
     /\ (lastOp'.name \in {"untranslate", "depth"} => peers' = peers)
     /\ (lastOp'.name = "peerdepth"
           => /\ translate' = translate
              /\ \A form \in DOMAIN peers :
                   peers'[form].translate = peers[form].translate)]_vars

\* A press inside the nested element, with its translater and the one of
\* targetForm in deep mode: both styles took the move, the sibling's did not.
NoContentionWitness ==
  /\ DOMAIN peers = PeerForms
  /\ lastOp.name = "mousemove"
  /\ press.state = "down"
  /\ press.origin = "input"
  /\ interactionDepth = "deep"
  /\ peers["field"].interactionDepth = "deep"
  /\ translate = <<MoveStep, 0>>
  /\ peers["field"].translate = <<MoveStep + MoveStep, 0>>
  /\ peers["form2"].translate = NoTranslate

\* C19: a mouseover or mouseout event leaves the translation, the pressed
\* flag, the recorded press and the depth as they were and changes at most
\* the grab marker in the class list of the target: it sets (removes) the
\* marker when the event's origin is the target itself and changes nothing
\* when the origin is a descendant or lies elsewhere; and no other
\* operation changes any class list.
HoverIsCosmetic ==
  [][/\ (lastOp'.name \in {"mouseover", "mouseout"}
           => /\ translate' = translate
              /\ mouseIsDown' = mouseIsDown
              /\ lastMouseDown' = lastMouseDown
              /\ interactionDepth' = interactionDepth
              /\ \A n \in Nodes \ {targetForm} : classList'[n] = classList[n]
              /\ classList'[targetForm] \ {GrabCursor}
                   = classList[targetForm] \ {GrabCursor}
              /\ (hover' # targetForm => classList' = classList)
              /\ (hover' = targetForm
                    => (GrabCursor \in classList'[targetForm]
                          <=> lastOp'.name = "mouseover")))
     /\ (lastOp'.name \notin {"mouseover", "mouseout"}
           => classList' = classList)]_vars

\* The pointer entered the target and then a descendant of it during a held
\* press that had moved the target: the marker is still set.
HoverIsCosmeticWitness ==
  /\ lastOp.name = "mouseover"
  /\ hover = "input"
  /\ GrabCursor \in classList[targetForm]
  /\ mouseIsDown
  /\ press.origin = targetForm
  /\ translate = <<MoveStep, 0>>

\* C20: whenever mouseIsDown is true a press-start event is recorded in
\* lastMouseDown, and a recorded event is never cleared, only replaced.
RecordedPress ==
  /\ [](mouseIsDown => Len(lastMouseDown) = 1)
  /\ [][Len(lastMouseDown) = 1 => Len(lastMouseDown') = 1]_vars

\* A move was handled during a held press whose recorded origin is an
\* element outside the target.
RecordedPressWitness ==
  /\ mouseIsDown
  /\ Len(lastMouseDown) = 1
  /\ lastMouseDown[1].target = "container"
  /\ lastOp.name = "mousemove"
  /\ press.state = "down"

=============================================================================
